---- MODULE Spec2Model ----
(***************************************************************************)
(* Knowledge relevance detector: the three scoring pipelines (lexical,     *)
(* entity/topic, LLM-enhanced), the two HTTP endpoints in front of the     *)
(* lexical and the LLM-enhanced pipeline, the embedding provider the       *)
(* LLM-enhanced pipeline awaits, and the Home page that posts to the       *)
(* endpoints. Spec follows one request to the server or one direct call;   *)
(* PageSpec follows the page; EngineSpec follows two concurrent calls of   *)
(* the LLM-enhanced pipeline.                                              *)
(*                                                                         *)
(* Modelling decisions:                                                    *)
(*  - a JavaScript string is a sequence of words separated by single       *)
(*    spaces; the empty string is << >>; a word is a TLA+ string of the    *)
(*    Vocabulary, and the per-character functions of the code              *)
(*    (toLowerCase, the regular expressions) are tabulated over it;        *)
(*  - a JavaScript number is an exact real a + b/sqrt(q) (a, b rational,   *)
(*    q a squarefree natural) or NaN: the rounding of IEEE doubles is not  *)
(*    modelled, Math.sqrt and 0/0 are;                                     *)
(*  - an embedding is a short vector of small integers.                    *)
(***************************************************************************)
EXTENDS Integers, Sequences, FiniteSets, TLC

(***************************************************************************)
(* Bounds of the model.                                                    *)
(***************************************************************************)
\* words per request text
MaxTextLen == 2
\* strings per entity category handed to the entity/topic pipeline
MaxCategoryLen == 1
\* strings per collection handed to calculateOverlap directly
MaxArrayLen == 2
\* words per text handed to extractKeywords directly
MaxKeywordTextLen == 3

(***************************************************************************)
(* Sequences.                                                              *)
(***************************************************************************)
Range(s) == {s[i] : i \in 1..Len(s)}

Includes(s, x) == \E i \in 1..Len(s) : s[i] = x

\* Array.prototype.slice(0, n)
Slice(s, n) == IF Len(s) <= n THEN s ELSE SubSeq(s, 1, n)

\* [...new Set(s)]: first occurrences, in order
RECURSIVE Distinct(_)
Distinct(s) ==
    IF s = << >> THEN << >>
    ELSE LET front == Distinct(SubSeq(s, 1, Len(s) - 1))
             last == s[Len(s)]
         IN  IF Includes(front, last) THEN front ELSE Append(front, last)

\* all sequences over S of length at most n
SeqsUpTo(S, n) == UNION {[1..k -> S] : k \in 0..n}

(***************************************************************************)
(* Numbers: rationals <<n, d>> in lowest terms with d > 0, and the reals   *)
(* the pipelines compute.                                                  *)
(***************************************************************************)
Abs(x) == IF x < 0 THEN -x ELSE x

RECURSIVE GCD(_, _)
GCD(a, b) == IF b = 0 THEN a ELSE GCD(b, a % b)

Rat(n, d) ==
    LET g == GCD(Abs(n), Abs(d))
        s == IF d < 0 THEN -1 ELSE 1
    IN  <<(s * n) \div g, (s * d) \div g>>

RatAdd(x, y) == Rat(x[1] * y[2] + y[1] * x[2], x[2] * y[2])
RatMul(x, y) == Rat(x[1] * y[1], x[2] * y[2])
RatSign(x) == IF x[1] > 0 THEN 1 ELSE IF x[1] < 0 THEN -1 ELSE 0
RatFloor(x) == x[1] \div x[2]

\* largest s with s*s dividing q
SquarePart(q) == CHOOSE s \in 1..q : /\ q % (s * s) = 0
                                     /\ \A t \in (s + 1)..q : q % (t * t) # 0

\* floor of the square root of n
RECURSIVE IsqrtIn(_, _, _)
IsqrtIn(n, lo, hi) ==
    IF lo = hi THEN lo
    ELSE LET mid == (lo + hi + 1) \div 2
         IN  IF mid * mid <= n THEN IsqrtIn(n, mid, hi) ELSE IsqrtIn(n, lo, mid - 1)
\* (the root of a 32-bit integer is below 46341)
Isqrt(n) == IsqrtIn(n, 0, IF n < 46340 THEN n ELSE 46340)

NaN == [nan |-> TRUE, a |-> <<0, 1>>, b |-> <<0, 1>>, q |-> 1]

\* the real a + b/sqrt(q), in its unique form
Real(a, b, q) ==
    IF b[1] = 0 THEN [nan |-> FALSE, a |-> a, b |-> <<0, 1>>, q |-> 1]
    ELSE LET s == SquarePart(q)
             f == q \div (s * s)
             bs == RatMul(b, <<1, s>>)
         IN  IF f = 1 THEN [nan |-> FALSE, a |-> RatAdd(a, bs), b |-> <<0, 1>>, q |-> 1]
             ELSE [nan |-> FALSE, a |-> a, b |-> bs, q |-> f]

Num(n, d) == Real(Rat(n, d), <<0, 1>>, 1)

\* x * (n/d)
Times(x, n, d) ==
    IF x.nan THEN NaN ELSE Real(RatMul(x.a, Rat(n, d)), RatMul(x.b, Rat(n, d)), x.q)

\* x + y; the sums of the pipelines have at most one irrational term, so
\* that two irrational parts, when both are present, are over the same root
Plus(x, y) ==
    IF x.nan \/ y.nan THEN NaN
    ELSE IF x.b[1] = 0 THEN Real(RatAdd(x.a, y.a), y.b, y.q)
    ELSE Real(RatAdd(x.a, y.a), RatAdd(x.b, y.b), x.q)

Minus(x, y) == Plus(x, Times(y, -1, 1))

\* the sign of a real that is not NaN
Sign(x) ==
    LET sa == RatSign(x.a)
        sb == RatSign(x.b)
        \* a*a*q against b*b, as integers
        lhs == x.a[1] * x.a[1] * x.q * x.b[2] * x.b[2]
        rhs == x.b[1] * x.b[1] * x.a[2] * x.a[2]
    IN  IF sb = 0 THEN sa
        ELSE IF sa = 0 \/ sa = sb THEN sb
        ELSE IF lhs > rhs THEN sa ELSE sb

\* JavaScript x > y and x >= y: false when either side is NaN
GT(x, y) == ~x.nan /\ ~y.nan /\ Sign(Minus(x, y)) > 0
GE(x, y) == ~x.nan /\ ~y.nan /\ Sign(Minus(x, y)) >= 0

\* floor of a real that is not NaN
Floor(x) ==
    IF x.b[1] = 0 THEN RatFloor(x.a)
    ELSE LET fa == RatFloor(x.a)
             \* |b/sqrt(q)| = sqrt(b*b/q): its floor is Isqrt of the floor of b*b/q
             r == Isqrt((x.b[1] * x.b[1]) \div (x.b[2] * x.b[2] * x.q))
             fs == IF x.b[1] > 0 THEN r ELSE -(r + 1)
             lo == fa + fs
         IN  IF GE(x, Num(lo + 2, 1)) THEN lo + 2
             ELSE IF GE(x, Num(lo + 1, 1)) THEN lo + 1 ELSE lo

(***************************************************************************)
(* Strings. A string is a sequence of words; the words of the model:       *)
(***************************************************************************)
Vocabulary == {"Sarah", "Johnson", "budget", "the", "$500",
               "sarah", "johnson", "500", "Paris", "paris", "Acme", "acme"}

\* String.prototype.toLowerCase, word by word
LowerWord(w) ==
    CASE w = "Sarah" -> "sarah"
      [] w = "Johnson" -> "johnson"
      [] w = "Paris" -> "paris"
      [] w = "Acme" -> "acme"
      [] OTHER -> w

ToLowerCase(s) == [i \in 1..Len(s) |-> LowerWord(s[i])]

\* .replace(/[^\w\s]/g, '') on a word
StripPunctuation(w) == IF w = "$500" THEN "500" ELSE w

\* String.prototype.length of a word
WordLength(w) ==
    CASE w \in {"Sarah", "sarah", "Paris", "paris"} -> 5
      [] w \in {"Johnson", "johnson"} -> 7
      [] w = "budget" -> 6
      [] w \in {"Acme", "acme", "$500"} -> 4
      [] w \in {"the", "500"} -> 3

\* the word matches [A-Z][a-z]+
IsCapitalized(w) == w \in {"Sarah", "Johnson", "Paris", "Acme"}

\* the word matches \$\d+(?:,\d{3})*(?:\.\d{2})?
IsMoney(w) == w = "$500"

\* the word is a canonical array index: Object.entries lists such keys first
IsIntegerKey(w) == w = "500"
IntegerValue(w) == IF w = "500" THEN 500 ELSE 0

\* the stop words of the code that are words of the model
StopWords == {"the"}

(***************************************************************************)
(* extractKeywords (the same function in both files that define it).       *)
(***************************************************************************)
Occurrences(s, x) == Cardinality({i \in 1..Len(s) : s[i] = x})

\* ascending numeric order of integer-like keys
RECURSIVE SortIntegerKeys(_)
SortIntegerKeys(ks) ==
    IF ks = << >> THEN << >>
    ELSE LET least == CHOOSE k \in Range(ks) :
                          \A j \in Range(ks) : IntegerValue(k) <= IntegerValue(j)
         IN  <<least>> \o SortIntegerKeys(SelectSeq(ks, LAMBDA k : k # least))

\* Object.entries(wordFrequency): integer-like keys in ascending order, then
\* the other keys in insertion order; an entry is <<word, count>>
ObjectEntries(keywords) ==
    LET keys == Distinct(keywords)
        ordered == SortIntegerKeys(SelectSeq(keys, IsIntegerKey))
                   \o SelectSeq(keys, LAMBDA k : ~IsIntegerKey(k))
    IN  [i \in 1..Len(ordered) |-> <<ordered[i], Occurrences(keywords, ordered[i])>>]

\* Array.prototype.sort((a, b) => b[1] - a[1]): stable, descending count
RECURSIVE SortByCount(_)
SortByCount(entries) ==
    IF entries = << >> THEN << >>
    ELSE LET front == SortByCount(SubSeq(entries, 1, Len(entries) - 1))
             e == entries[Len(entries)]
             \* e goes after every entry whose count is at least its own
             keep == Cardinality({i \in 1..Len(front) : front[i][2] >= e[2]})
         IN  SubSeq(front, 1, keep) \o <<e>> \o SubSeq(front, keep + 1, Len(front))

MaxKeywords == 15

extractKeywords(text) ==
    LET words == [i \in 1..Len(text) |-> StripPunctuation(LowerWord(text[i]))]
        keywords == SelectSeq(words, LAMBDA w : w \notin StopWords /\ WordLength(w) > 2)
        top == Slice(SortByCount(ObjectEntries(keywords)), MaxKeywords)
    IN  [i \in 1..Len(top) |-> <<top[i][1]>>]

(***************************************************************************)
(* extractSimpleEntities (the same function in both files).                *)
(***************************************************************************)
\* the last word of the run of capitalized words that starts at word i
RECURSIVE RunEnd(_, _)
RunEnd(text, i) ==
    IF i < Len(text) /\ IsCapitalized(text[i + 1]) THEN RunEnd(text, i + 1) ELSE i

\* text.match(properNounRegex): the runs of two or more capitalized words
RECURSIVE ProperNounsFrom(_, _)
ProperNounsFrom(text, i) ==
    IF i > Len(text) THEN << >>
    ELSE IF ~IsCapitalized(text[i]) THEN ProperNounsFrom(text, i + 1)
    ELSE LET j == RunEnd(text, i)
         IN  IF j > i THEN <<SubSeq(text, i, j)>> \o ProperNounsFrom(text, j + 1)
             ELSE ProperNounsFrom(text, j + 1)

ProperNouns(text) == ProperNounsFrom(text, 1)

\* text.match(dateRegex), text.match(statsRegex): no word of the model is a
\* month name, a number followed by "percent" or a d/m/y date
Dates(text) == << >>
Stats(text) == << >>

\* text.match(moneyRegex)
Money(text) ==
    LET hits == SelectSeq(text, IsMoney) IN [i \in 1..Len(hits) |-> <<hits[i]>>]

extractSimpleEntities(text) ==
    Distinct(ProperNouns(text) \o Dates(text) \o Stats(text) \o Money(text))

(***************************************************************************)
(* calculateOverlap (the same function in both files).                     *)
(***************************************************************************)
\* variant: no early return for an empty collection (0/0 is NaN)
calculateOverlapNoGuard(array1, array2) ==
    LET set1 == {ToLowerCase(x) : x \in Range(array1)}
        set2 == {ToLowerCase(x) : x \in Range(array2)}
        union == set1 \cup set2
    IN  IF union = {} THEN NaN ELSE Num(Cardinality(set1 \cap set2), Cardinality(union))

\* variant: the elements are compared as they are, not lowercased
calculateOverlapCaseSensitive(array1, array2) ==
    IF Len(array1) = 0 \/ Len(array2) = 0 THEN Num(0, 1)
    ELSE Num(Cardinality(Range(array1) \cap Range(array2)),
             Cardinality(Range(array1) \cup Range(array2)))

\* variant: the intersection is divided by the first set, not by the union
calculateOverlapOverFirst(array1, array2) ==
    IF Len(array1) = 0 \/ Len(array2) = 0 THEN Num(0, 1)
    ELSE LET set1 == {ToLowerCase(x) : x \in Range(array1)}
             set2 == {ToLowerCase(x) : x \in Range(array2)}
         IN  Num(Cardinality(set1 \cap set2), Cardinality(set1))

calculateOverlap(array1, array2) ==
    IF Len(array1) = 0 \/ Len(array2) = 0 THEN Num(0, 1)
    ELSE LET set1 == {ToLowerCase(x) : x \in Range(array1)}
             set2 == {ToLowerCase(x) : x \in Range(array2)}
             intersection == {x \in set1 : x \in set2}
             union == set1 \cup set2
         IN  Num(Cardinality(intersection), Cardinality(union))

(***************************************************************************)
(* Number.prototype.toFixed(1) of x * 100, as a number of tenths, or "NaN" *)
(***************************************************************************)
Percent(x) ==
    IF x.nan THEN [nan |-> TRUE, tenths |-> 0]
    ELSE LET t == Times(x, 1000, 1)
             half == Num(1, 2)
         IN  [nan |-> FALSE,
              tenths |-> IF Sign(t) >= 0 THEN Floor(Plus(t, half))
                         ELSE -Floor(Plus(Times(t, -1, 1), half))]

(***************************************************************************)
(* The lexical pipeline.                                                   *)
(***************************************************************************)
\* the entities of p that some entity of s equals up to case
SharedEntities(p, s) ==
    SelectSeq(p, LAMBDA e : \E i \in 1..Len(s) : ToLowerCase(s[i]) = ToLowerCase(e))

\* the strings of p that s includes
SharedExact(p, s) == SelectSeq(p, LAMBDA k : Includes(s, k))

SimpleLevel(relevanceScore) ==
    IF GT(relevanceScore, Num(7, 10)) THEN "High"
    ELSE IF GT(relevanceScore, Num(3, 10)) THEN "Moderate"
    ELSE "Low"

\* the explanation string, by its parts: the lead sentence, the listed
\* entities and keywords (an empty list: no such sentence), whether "..."
\* follows them, and the percentages
generateExplanation(primaryKeywords, secondaryKeywords, primaryEntities, secondaryEntities, keywordOverlap, entityOverlap, relevanceScore) ==
    LET sharedKeywords == SharedExact(primaryKeywords, secondaryKeywords)
        sharedEntities == SharedEntities(primaryEntities, secondaryEntities)
    IN  [level |-> SimpleLevel(relevanceScore),
         entities |-> Slice(sharedEntities, 5),
         entitiesMore |-> Len(sharedEntities) > 5,
         keywords |-> Slice(sharedKeywords, 7),
         keywordsMore |-> Len(sharedKeywords) > 7,
         entityPercent |-> Percent(entityOverlap),
         keywordPercent |-> Percent(keywordOverlap)]

\* variant: the entity weight mistyped as 0.6 (the weights no longer sum to 1)
SimpleScoreOverweight(keywordOverlap, entityOverlap) ==
    Plus(Times(keywordOverlap, 6, 10), Times(entityOverlap, 6, 10))

SimpleScore(keywordOverlap, entityOverlap) ==
    Plus(Times(keywordOverlap, 6, 10), Times(entityOverlap, 4, 10))

\* variant: the threshold comparison made inclusive
SimpleIsRelevantInclusive(relevanceScore) == GE(relevanceScore, Num(3, 10))

SimpleIsRelevant(relevanceScore) == GT(relevanceScore, Num(3, 10))

calculateRelevanceSimple(primaryText, secondaryText) ==
    LET primaryKeywords == extractKeywords(primaryText)
        secondaryKeywords == extractKeywords(secondaryText)
        primaryEntities == extractSimpleEntities(primaryText)
        secondaryEntities == extractSimpleEntities(secondaryText)
        keywordOverlap == calculateOverlap(primaryKeywords, secondaryKeywords)
        entityOverlap == calculateOverlap(primaryEntities, secondaryEntities)
        relevanceScore == SimpleScore(keywordOverlap, entityOverlap)
    IN  [isRelevant |-> SimpleIsRelevant(relevanceScore),
         score |-> relevanceScore,
         explanation |-> generateExplanation(primaryKeywords, secondaryKeywords,
                             primaryEntities, secondaryEntities,
                             keywordOverlap, entityOverlap, relevanceScore)]

(***************************************************************************)
(* The entity/topic pipeline. extractEntities and performTopicModeling are *)
(* library calls: their results are inputs of the model. A topic is its    *)
(* term (its weight is never read).                                        *)
(***************************************************************************)
calculateEntityOverlap(primaryEntities, secondaryEntities) ==
    LET allPrimaryEntities == primaryEntities.people \o primaryEntities.places
                              \o primaryEntities.organizations \o primaryEntities.topics
        allSecondaryEntities == secondaryEntities.people \o secondaryEntities.places
                              \o secondaryEntities.organizations \o secondaryEntities.topics
        overlapping == SharedEntities(allPrimaryEntities, allSecondaryEntities)
        unionSize == Cardinality(Range(allPrimaryEntities) \cup Range(allSecondaryEntities))
    IN  \* 0/0 is NaN; the union is empty only when nothing overlaps
        IF unionSize = 0 THEN NaN ELSE Num(Len(overlapping), unionSize)

calculateTopicSimilarity(primaryTopics, secondaryTopics) ==
    LET overlapping == SharedExact(primaryTopics, secondaryTopics)
        product == Len(primaryTopics) * Len(secondaryTopics)
    IN  \* 0/Math.sqrt(0) is NaN; nothing overlaps when a list is empty
        IF product = 0 THEN NaN ELSE Real(<<0, 1>>, <<Len(overlapping), 1>>, product)

EntityTopicLevel(relevanceScore) ==
    IF GT(relevanceScore, Num(7, 10)) THEN "High"
    ELSE IF GT(relevanceScore, Num(3, 10)) THEN "Moderate"
    ELSE "Low"

generateExplanationEntityTopic(primaryEntities, secondaryEntities, primaryTopics, secondaryTopics, entityOverlap, topicSimilarity, relevanceScore) ==
    [level |-> EntityTopicLevel(relevanceScore),
     people |-> SharedExact(primaryEntities.people, secondaryEntities.people),
     organizations |-> SharedExact(primaryEntities.organizations,
                                   secondaryEntities.organizations),
     places |-> SharedExact(primaryEntities.places, secondaryEntities.places),
     topics |-> SharedExact(primaryTopics, secondaryTopics),
     entityPercent |-> Percent(entityOverlap),
     topicPercent |-> Percent(topicSimilarity)]

EntityTopicScore(entityOverlap, topicSimilarity) ==
    Plus(Times(entityOverlap, 6, 10), Times(topicSimilarity, 4, 10))

EntityTopicIsRelevant(relevanceScore) == GT(relevanceScore, Num(3, 10))

calculateRelevanceEntityTopic(primaryEntities, secondaryEntities, primaryTopics, secondaryTopics) ==
    LET entityOverlap == calculateEntityOverlap(primaryEntities, secondaryEntities)
        topicSimilarity == calculateTopicSimilarity(primaryTopics, secondaryTopics)
        relevanceScore == EntityTopicScore(entityOverlap, topicSimilarity)
    IN  [isRelevant |-> EntityTopicIsRelevant(relevanceScore),
         score |-> relevanceScore,
         explanation |-> generateExplanationEntityTopic(primaryEntities,
                             secondaryEntities, primaryTopics, secondaryTopics,
                             entityOverlap, topicSimilarity, relevanceScore)]

(***************************************************************************)
(* The LLM-enhanced pipeline. calculateRelevance suspends at each of its   *)
(* two embedding requests; a call is the record of its locals, of the      *)
(* requests it has issued and of where it stands.                          *)
(***************************************************************************)
RECURSIVE SumOfProducts(_, _, _)
SumOfProducts(v, w, n) == IF n = 0 THEN 0 ELSE v[n] * w[n] + SumOfProducts(v, w, n - 1)

\* [threw |-> TRUE] stands for throw new Error("Vectors must be of the same length")
cosineSimilarity(vec1, vec2) ==
    IF Len(vec1) # Len(vec2) THEN [threw |-> TRUE, value |-> NaN]
    ELSE LET dotProduct == SumOfProducts(vec1, vec2, Len(vec1))
             magnitude1 == SumOfProducts(vec1, vec1, Len(vec1))
             magnitude2 == SumOfProducts(vec2, vec2, Len(vec2))
         IN  IF magnitude1 = 0 \/ magnitude2 = 0 THEN [threw |-> FALSE, value |-> Num(0, 1)]
             ELSE [threw |-> FALSE,
                   \* dot / (sqrt(m1) * sqrt(m2))
                   value |-> Real(<<0, 1>>, <<dotProduct, 1>>, magnitude1 * magnitude2)]

\* characters of a string: its words and the spaces between them
RECURSIVE CharLength(_)
CharLength(text) ==
    IF text = << >> THEN 0
    ELSE WordLength(Head(text)) + (IF Len(text) > 1 THEN 1 ELSE 0) + CharLength(Tail(text))

\* the longest prefix of whole words within maxChars characters (a cut
\* inside a word is not a string of the model)
RECURSIVE Substring(_, _)
Substring(text, maxChars) ==
    IF CharLength(text) <= maxChars THEN text
    ELSE Substring(SubSeq(text, 1, Len(text) - 1), maxChars)

truncateText(text, maxTokens) ==
    LET maxChars == maxTokens * 4
    IN  IF CharLength(text) <= maxChars THEN text ELSE Substring(text, maxChars)

\* variant: the two fallback weights exchanged
FallbackSimilaritySwapped(keywordOverlap, entityOverlap) ==
    Plus(Times(keywordOverlap, 4, 10), Times(entityOverlap, 6, 10))

\* the catch branch of calculateSemanticSimilarity
FallbackSimilarity(keywordOverlap, entityOverlap) ==
    Plus(Times(keywordOverlap, 6, 10), Times(entityOverlap, 4, 10))

\* variant: the lead sentence turns Moderate at 0.4, not at the 0.35 of
\* isRelevant
LLMLevelHigherThreshold(relevanceScore) ==
    IF GT(relevanceScore, Num(7, 10)) THEN "High"
    ELSE IF GT(relevanceScore, Num(4, 10)) THEN "Moderate"
    ELSE "Low"

LLMLevel(relevanceScore) ==
    IF GT(relevanceScore, Num(7, 10)) THEN "High"
    ELSE IF GT(relevanceScore, Num(35, 100)) THEN "Moderate"
    ELSE "Low"

SemanticBand(semanticSimilarity) ==
    IF GT(semanticSimilarity, Num(8, 10)) THEN "highly similar"
    ELSE IF GT(semanticSimilarity, Num(5, 10)) THEN "moderate"
    ELSE IF GT(semanticSimilarity, Num(3, 10)) THEN "some relationship"
    ELSE "limited connection"

generateEnhancedExplanation(primaryKeywords, secondaryKeywords, primaryEntities, secondaryEntities, keywordOverlap, entityOverlap, semanticSimilarity, relevanceScore) ==
    LET sharedKeywords == SharedExact(primaryKeywords, secondaryKeywords)
        sharedEntities == SharedEntities(primaryEntities, secondaryEntities)
    IN  [level |-> LLMLevel(relevanceScore),
         semantic |-> SemanticBand(semanticSimilarity),
         entities |-> Slice(sharedEntities, 5),
         entitiesMore |-> Len(sharedEntities) > 5,
         keywords |-> Slice(sharedKeywords, 7),
         keywordsMore |-> Len(sharedKeywords) > 7,
         entityPercent |-> Percent(entityOverlap),
         keywordPercent |-> Percent(keywordOverlap),
         semanticPercent |-> Percent(semanticSimilarity)]

\* variant: the semantic weight mistyped as 0.4
LLMScoreUnderweight(keywordOverlap, entityOverlap, semanticSimilarity) ==
    Plus(Plus(Times(keywordOverlap, 3, 10), Times(entityOverlap, 2, 10)),
         Times(semanticSimilarity, 4, 10))

LLMScore(keywordOverlap, entityOverlap, semanticSimilarity) ==
    Plus(Plus(Times(keywordOverlap, 3, 10), Times(entityOverlap, 2, 10)),
         Times(semanticSimilarity, 5, 10))

LLMIsRelevant(relevanceScore) == GT(relevanceScore, Num(35, 100))

NoOutcome == [kind |-> "none"]

IdleCall == [pc |-> "idle", requests |-> << >>, outcome |-> NoOutcome]

\* openai.embeddings.create for the primary or the secondary text
EmbeddingRequest(which, text) ==
    [text |-> which, input |-> truncateText(text, 8000),
     status |-> "pending", embedding |-> << >>]

\* calculateRelevance up to the first await
BeginCall(primaryText, secondaryText) ==
    LET primaryKeywords == extractKeywords(primaryText)
        secondaryKeywords == extractKeywords(secondaryText)
        primaryEntities == extractSimpleEntities(primaryText)
        secondaryEntities == extractSimpleEntities(secondaryText)
    IN  [pc |-> "embedding1",
         primaryText |-> primaryText,
         secondaryText |-> secondaryText,
         primaryKeywords |-> primaryKeywords,
         secondaryKeywords |-> secondaryKeywords,
         primaryEntities |-> primaryEntities,
         secondaryEntities |-> secondaryEntities,
         keywordOverlap |-> calculateOverlap(primaryKeywords, secondaryKeywords),
         entityOverlap |-> calculateOverlap(primaryEntities, secondaryEntities),
         requests |-> <<EmbeddingRequest("primary", primaryText)>>,
         outcome |-> NoOutcome]

\* calculateRelevance from the value of calculateSemanticSimilarity on
Finish(c, semanticSimilarity) ==
    LET relevanceScore == LLMScore(c.keywordOverlap, c.entityOverlap, semanticSimilarity)
        result == [isRelevant |-> LLMIsRelevant(relevanceScore),
                   score |-> relevanceScore,
                   explanation |-> generateEnhancedExplanation(c.primaryKeywords,
                       c.secondaryKeywords, c.primaryEntities, c.secondaryEntities,
                       c.keywordOverlap, c.entityOverlap, semanticSimilarity,
                       relevanceScore),
                   components |-> [keywordOverlap |-> c.keywordOverlap,
                                   entityOverlap |-> c.entityOverlap,
                                   semanticSimilarity |-> semanticSimilarity]]
    IN  [c EXCEPT !.pc = "returned", !.outcome = [kind |-> "returned", result |-> result]]

\* the request the call awaits is settled
Settle(c, status, embedding) ==
    [c EXCEPT !.requests[Len(c.requests)].status = status,
              !.requests[Len(c.requests)].embedding = embedding]

\* response1 arrives: the second request is issued
FirstResolved(c, embedding) ==
    LET d == Settle(c, "resolved", embedding)
    IN  [d EXCEPT !.pc = "embedding2",
                  !.requests = Append(d.requests, EmbeddingRequest("secondary", c.secondaryText))]

\* response2 arrives: the rest of the try block, and the catch around it
SecondResolved(c, embedding) ==
    LET d == Settle(c, "resolved", embedding)
        similarity == cosineSimilarity(d.requests[1].embedding, d.requests[2].embedding)
    IN  IF similarity.threw
        THEN Finish(d, FallbackSimilarity(c.keywordOverlap, c.entityOverlap))
        ELSE Finish(d, similarity.value)

\* variant: a rejected first request does not end the try block, the second
\* request is still issued
RejectedThenContinue(c) ==
    IF c.pc = "embedding1"
    THEN LET d == Settle(c, "rejected", << >>)
         IN  [d EXCEPT !.pc = "embedding2",
                       !.requests = Append(d.requests,
                                           EmbeddingRequest("secondary", c.secondaryText))]
    ELSE Finish(Settle(c, "rejected", << >>),
                FallbackSimilarity(c.keywordOverlap, c.entityOverlap))

\* the awaited request rejects: the catch branch
Rejected(c) ==
    Finish(Settle(c, "rejected", << >>), FallbackSimilarity(c.keywordOverlap, c.entityOverlap))

\* the awaited request is never settled: nothing resumes the call
Unanswered(c) == Settle(c, "unanswered", << >>)

(***************************************************************************)
(* The HTTP endpoints. A request body is a JSON object that may lack       *)
(* either text: a function from some of the keys to texts.                 *)
(***************************************************************************)
\* !body[key]: the key is missing or its text is the empty string
Falsy(body, key) == key \notin DOMAIN body \/ body[key] = << >>

NoResponse == [kind |-> "none", status |-> 0]

Failure(status, error) == [kind |-> "http", status |-> status, error |-> error]

\* variant: the validation only rejects a key that is missing, not an empty
\* string
llmHandlerChecksEmptyAllowed(method, body, key) ==
    IF method # "POST" THEN Failure(405, "Method not allowed")
    ELSE IF "primaryText" \notin DOMAIN body \/ "secondaryText" \notin DOMAIN body
    THEN Failure(400, "Both primaryText and secondaryText are required")
    ELSE IF ~key THEN Failure(500, "OpenAI API key is not configured")
    ELSE NoResponse

\* variant: the credential is not checked before the computation starts
llmHandlerChecksNoKeyCheck(method, body, key) ==
    IF method # "POST" THEN Failure(405, "Method not allowed")
    ELSE IF Falsy(body, "primaryText") \/ Falsy(body, "secondaryText")
    THEN Failure(400, "Both primaryText and secondaryText are required")
    ELSE NoResponse

\* variant: the method is not looked at
llmHandlerChecksAnyMethod(method, body, key) ==
    IF Falsy(body, "primaryText") \/ Falsy(body, "secondaryText")
    THEN Failure(400, "Both primaryText and secondaryText are required")
    ELSE IF ~key THEN Failure(500, "OpenAI API key is not configured")
    ELSE NoResponse

\* calculate-relevance-llm, the returns before its first computation
llmHandlerChecks(method, body, key) ==
    IF method # "POST" THEN Failure(405, "Method not allowed")
    ELSE IF Falsy(body, "primaryText") \/ Falsy(body, "secondaryText")
    THEN Failure(400, "Both primaryText and secondaryText are required")
    ELSE IF ~key THEN Failure(500, "OpenAI API key is not configured")
    ELSE NoResponse

\* what calculate-relevance-llm has read when it responds or first suspends
llmHandlerReads(method, body) ==
    IF method # "POST" THEN {}
    ELSE IF Falsy(body, "primaryText") \/ Falsy(body, "secondaryText") THEN {"req.body"}
    ELSE {"req.body", "process.env.OPENAI_API_KEY"}

\* calculate-relevance-llm, once calculateRelevance has settled
llmHandlerRespond(h, outcome) ==
    IF outcome.kind = "returned"
    THEN [kind |-> "http", status |-> 200, result |-> outcome.result,
          primaryEntities |-> h.primaryEntities,
          secondaryEntities |-> h.secondaryEntities]
    ELSE IF outcome.kind = "threw"
    THEN [kind |-> "http", status |-> 500, error |-> "Failed to calculate relevance",
          message |-> outcome.message]
    \* the call has not settled: the handler is still at its await
    ELSE NoResponse

\* calculate-relevance-simple, the returns before its first computation
simpleHandlerChecks(method, body) ==
    IF method # "POST" THEN Failure(405, "Method not allowed")
    ELSE IF Falsy(body, "primaryText") \/ Falsy(body, "secondaryText")
    THEN Failure(400, "Both primaryText and secondaryText are required")
    ELSE NoResponse

\* what calculate-relevance-simple has read when it responds
simpleHandlerReads(method) == IF method # "POST" THEN {} ELSE {"req.body"}

\* explanation.match(/...: ([^%]+)/)[1] / 100
ParsePercent(p) == IF p.nan THEN NaN ELSE Num(p.tenths, 1000)

\* calculate-relevance-simple, from the extraction of the entities on
simpleHandlerCompute(body) ==
    LET result == calculateRelevanceSimple(body["primaryText"], body["secondaryText"])
        components == [keywordOverlap |-> ParsePercent(result.explanation.keywordPercent),
                       entityOverlap |-> ParsePercent(result.explanation.entityPercent)]
    IN  [kind |-> "http", status |-> 200,
         result |-> [isRelevant |-> result.isRelevant, score |-> result.score,
                     explanation |-> result.explanation, components |-> components],
         primaryEntities |-> extractSimpleEntities(body["primaryText"]),
         secondaryEntities |-> extractSimpleEntities(body["secondaryText"])]

(***************************************************************************)
(* The inputs of the model.                                                *)
(***************************************************************************)
\* the texts sent to the LLM endpoint, and the wider ones (with a stop word
\* and an amount of money) sent to the lexical endpoint, which has no
\* provider answers to go through for each of them
RequestWords == {"Sarah", "Johnson", "budget"}
SimpleRequestWords == RequestWords \cup {"the", "$500"}
Texts == SeqsUpTo(RequestWords, MaxTextLen)
SimpleTexts == SeqsUpTo(SimpleRequestWords, MaxTextLen)
BodyKeys == {"primaryText", "secondaryText"}
Bodies == UNION {[D -> Texts] : D \in SUBSET BodyKeys}
SimpleBodies == UNION {[D -> SimpleTexts] : D \in SUBSET BodyKeys}
Methods == {"POST", "GET"}

\* what the embedding provider may return: vectors of one or two components,
\* among them a zero vector, opposite vectors and vectors at 45 degrees
Embeddings == {<<0>>, <<1>>, <<-1>>, <<1, 0>>, <<1, 1>>, <<-1, -1>>}

\* what the extractors of the entity/topic pipeline may return
NoRepeat(s) == \A i, j \in 1..Len(s) : s[i] = s[j] => i = j
DistinctSeqs(S) == {s \in SeqsUpTo(S, Cardinality(S)) : NoRepeat(s)}
\* six people, more than an explanation is said to list
SixPeople ==
    << <<"Sarah">>, <<"Johnson">>, <<"Paris">>, <<"Acme">>,
       <<"Sarah", "Johnson">>, <<"Paris", "Acme">> >>
EntitySets ==
    [people : SeqsUpTo({<<"Paris">>}, MaxCategoryLen) \cup {SixPeople},
     places : SeqsUpTo({<<"Paris">>}, MaxCategoryLen),
     organizations : SeqsUpTo({<<"Acme">>}, MaxCategoryLen),
     topics : DistinctSeqs({<<"paris">>})]
TopicLists == DistinctSeqs({<<"paris">>, <<"budget">>})

\* the collections handed to calculateOverlap directly: strings that differ in
\* case only, in any order, with repetitions
OverlapArrays == SeqsUpTo({<<"Sarah">>, <<"sarah">>, <<"budget">>}, MaxArrayLen)

\* the texts handed to extractKeywords directly
KeywordTexts == SeqsUpTo(SimpleRequestWords, MaxKeywordTextLen)

(***************************************************************************)
(* The state.                                                              *)
(***************************************************************************)
VARIABLES
    request,    \* the request, or the direct call, being served; for the LLM
                \* endpoint with apiKey: process.env.OPENAI_API_KEY is set
    handler,    \* the locals of calculate-relevance-llm while it awaits
    call,       \* the calculateRelevance call of the LLM-enhanced pipeline
    ops,        \* the computations performed for the request
    response,   \* what was sent or returned for the request
    reads,      \* what the handler has read of the request and the environment
    page,       \* the React state of the Home page
    submits,    \* the handleSubmit invocations of the page, by start order
    visualizer, \* the state of the RelevanceVisualizer the page renders
    calls,      \* the concurrent calculateRelevance calls of the engine
    provided    \* what the provider answered to each of them, in order

serverVars == <<request, handler, call, ops, response, reads>>
pageVars == <<page, submits, visualizer>>
engineVars == <<calls, provided>>
vars == <<serverVars, pageVars, engineVars>>

NoRequest == [endpoint |-> "none"]

\* the state of a RelevanceVisualizer as it mounts (none is mounted while
\* Home has no result)
InitialVisualizer ==
    [mounted |-> FALSE, sharedEntities |-> << >>, sharedKeywords |-> << >>,
     uniquePrimaryEntities |-> << >>, uniqueSecondaryEntities |-> << >>]

\* the state of Home after its first render
NullResult == [kind |-> "null"]
InitialPage ==
    [primaryText |-> << >>, secondaryText |-> << >>, result |-> NullResult,
     loading |-> FALSE, primaryEntities |-> << >>, secondaryEntities |-> << >>,
     useLLM |-> TRUE]
NoHandler == [primaryEntities |-> << >>, secondaryEntities |-> << >>]

Init ==
    /\ request = NoRequest
    /\ handler = NoHandler
    /\ call = IdleCall
    /\ ops = {}
    /\ response = NoResponse
    /\ reads = {}
    /\ page = InitialPage
    /\ submits = << >>
    /\ visualizer = InitialVisualizer
    /\ calls = << >>
    /\ provided = << >>

\* nothing has been asked of the server yet: a behaviour follows one request
\* (the handlers and the pipelines keep nothing from one request to the next)
Idle == request = NoRequest

\* a calculateRelevance call is suspended at an embedding request
Awaiting == call.pc \in {"embedding1", "embedding2"}
Pending == Awaiting /\ call.requests[Len(call.requests)].status = "pending"

ExtractionOps == {"extractSimpleEntities", "extractKeywords", "calculateOverlap"}

\* POST /api/calculate-relevance-llm, up to the first await or to its response
LLMRequest(method, body, apiKey) ==
    /\ Idle
    /\ request' = [endpoint |-> "llm", method |-> method, body |-> body, apiKey |-> apiKey]
    /\ reads' = llmHandlerReads(method, body)
    /\ UNCHANGED <<pageVars, engineVars>>
    /\ LET early == llmHandlerChecks(method, body, apiKey)
       IN  IF early.kind = "http"
           THEN /\ response' = early
                /\ handler' = NoHandler
                /\ call' = IdleCall
                /\ ops' = {}
           ELSE /\ response' = NoResponse
                /\ handler' = [primaryEntities |-> extractSimpleEntities(body["primaryText"]),
                               secondaryEntities |-> extractSimpleEntities(body["secondaryText"])]
                /\ call' = BeginCall(body["primaryText"], body["secondaryText"])
                /\ ops' = ExtractionOps \cup {"embeddings.create"}

\* the provider answers the first embedding request
FirstEmbeddingResolved(embedding) ==
    /\ Pending /\ call.pc = "embedding1"
    /\ call' = FirstResolved(call, embedding)
    /\ UNCHANGED <<request, handler, ops, response, reads, pageVars, engineVars>>

\* the provider answers the second embedding request: the call returns and
\* the handler responds
SecondEmbeddingResolved(embedding) ==
    /\ Pending /\ call.pc = "embedding2"
    /\ call' = SecondResolved(call, embedding)
    /\ ops' = ops \cup {"cosineSimilarity", "generateEnhancedExplanation"}
    /\ response' = llmHandlerRespond(handler, call'.outcome)
    /\ UNCHANGED <<request, handler, reads, pageVars, engineVars>>

\* the awaited embedding request fails
EmbeddingRejected ==
    /\ Pending
    /\ call' = Rejected(call)
    /\ ops' = ops \cup {"generateEnhancedExplanation"}
    /\ response' = llmHandlerRespond(handler, call'.outcome)
    /\ UNCHANGED <<request, handler, reads, pageVars, engineVars>>

\* the awaited embedding request is never answered
EmbeddingUnanswered ==
    /\ Pending
    /\ call' = Unanswered(call)
    /\ UNCHANGED <<request, handler, ops, response, reads, pageVars, engineVars>>

\* POST /api/calculate-relevance-simple: nothing in it suspends on the
\* outside, the whole handler is one step
SimpleRequest(method, body) ==
    /\ Idle
    /\ request' = [endpoint |-> "simple", method |-> method, body |-> body]
    /\ reads' = simpleHandlerReads(method)
    /\ UNCHANGED <<pageVars, engineVars>>
    /\ LET early == simpleHandlerChecks(method, body)
       IN  IF early.kind = "http"
           THEN /\ response' = early
                /\ ops' = {}
           ELSE /\ response' = simpleHandlerCompute(body)
                /\ ops' = ExtractionOps \cup {"generateExplanation"}
    /\ handler' = NoHandler
    /\ call' = IdleCall

\* a direct call of the entity/topic pipeline's calculateRelevance
EntityTopicCall(primaryEntities, secondaryEntities, primaryTopics, secondaryTopics) ==
    /\ Idle
    /\ request' = [endpoint |-> "entityTopic",
                   primaryEntities |-> primaryEntities,
                   secondaryEntities |-> secondaryEntities,
                   primaryTopics |-> primaryTopics,
                   secondaryTopics |-> secondaryTopics]
    /\ response' = [kind |-> "return", status |-> 0,
                    result |-> calculateRelevanceEntityTopic(primaryEntities,
                                   secondaryEntities, primaryTopics, secondaryTopics)]
    /\ ops' = {"calculateEntityOverlap", "calculateTopicSimilarity", "generateExplanation"}
    /\ handler' = NoHandler
    /\ call' = IdleCall
    /\ UNCHANGED <<reads, pageVars, engineVars>>

\* a direct call of the exported calculateOverlap
OverlapCall(array1, array2) ==
    /\ Idle
    /\ request' = [endpoint |-> "calculateOverlap", array1 |-> array1, array2 |-> array2]
    /\ response' = [kind |-> "return", status |-> 0,
                    result |-> calculateOverlap(array1, array2)]
    /\ ops' = {"calculateOverlap"}
    /\ handler' = NoHandler
    /\ call' = IdleCall
    /\ UNCHANGED <<reads, pageVars, engineVars>>

\* a direct call of the exported extractKeywords
KeywordCall(text) ==
    /\ Idle
    /\ request' = [endpoint |-> "extractKeywords", text |-> text]
    /\ response' = [kind |-> "return", status |-> 0, result |-> extractKeywords(text)]
    /\ ops' = {"extractKeywords"}
    /\ handler' = NoHandler
    /\ call' = IdleCall
    /\ UNCHANGED <<reads, pageVars, engineVars>>

\* the actions over their inputs (each guard stands before its quantifier, so
\* that the inputs are only enumerated where the action can happen)
LLMRequests ==
    Idle /\ \E method \in Methods, body \in Bodies, apiKey \in BOOLEAN :
                LLMRequest(method, body, apiKey)
FirstEmbeddingResolutions ==
    Pending /\ \E embedding \in Embeddings : FirstEmbeddingResolved(embedding)
SecondEmbeddingResolutions ==
    Pending /\ \E embedding \in Embeddings : SecondEmbeddingResolved(embedding)
SimpleRequests ==
    Idle /\ \E method \in Methods, body \in SimpleBodies : SimpleRequest(method, body)
EntityTopicCalls ==
    Idle /\ \E pe, se \in EntitySets, pt, st \in TopicLists : EntityTopicCall(pe, se, pt, st)
OverlapCalls ==
    Idle /\ \E array1, array2 \in OverlapArrays : OverlapCall(array1, array2)
KeywordCalls ==
    Idle /\ \E text \in KeywordTexts : KeywordCall(text)

Next ==
    \/ LLMRequests
    \/ FirstEmbeddingResolutions
    \/ SecondEmbeddingResolutions
    \/ EmbeddingRejected
    \/ EmbeddingUnanswered
    \/ SimpleRequests
    \/ EntityTopicCalls
    \/ OverlapCalls
    \/ KeywordCalls

Spec == Init /\ [][Next]_vars

(***************************************************************************)
(* The Home page. handleSubmit suspends at its fetch; what comes back is   *)
(* what the endpoint it posted to sends for that body (computed with the   *)
(* handlers above, the call run on its own against the provider's          *)
(* answers), or what the network puts in its place.                        *)
(***************************************************************************)
\* calculateRelevance of the LLM-enhanced pipeline run to its return, the
\* provider answering its requests with answers[1], answers[2]
RunAlone(primaryText, secondaryText, answers) ==
    LET c0 == BeginCall(primaryText, secondaryText)
        c1 == IF answers[1].status = "rejected" THEN Rejected(c0)
              ELSE FirstResolved(c0, answers[1].embedding)
    IN  IF c1.pc = "returned" THEN c1
        ELSE IF answers[2].status = "rejected" THEN Rejected(c1)
        ELSE SecondResolved(c1, answers[2].embedding)

\* what the endpoint sends for a POST of body
EndpointResponse(useLLM, body, apiKey, answers) ==
    IF useLLM
    THEN LET early == llmHandlerChecks("POST", body, apiKey)
             h == [primaryEntities |-> extractSimpleEntities(body["primaryText"]),
                   secondaryEntities |-> extractSimpleEntities(body["secondaryText"])]
         IN  IF early.kind = "http" THEN early
             ELSE llmHandlerRespond(h, RunAlone(body["primaryText"],
                                                body["secondaryText"], answers).outcome)
    ELSE LET early == simpleHandlerChecks("POST", body)
         IN  IF early.kind = "http" THEN early ELSE simpleHandlerCompute(body)

\* response.ok
Ok(res) == res.status >= 200 /\ res.status <= 299

\* errorData.message || 'Failed to calculate relevance'
ErrorDataMessage(res) ==
    IF "message" \in DOMAIN res /\ res.message # "" THEN res.message
    ELSE "Failed to calculate relevance"

Undefined == [undefined |-> TRUE]

\* handleSubmit up to its await: setLoading(true); the closure keeps the
\* texts and the algorithm of the render it was created in
handleSubmitStart(pg) ==
    [useLLM |-> pg.useLLM,
     body |-> [primaryText |-> pg.primaryText, secondaryText |-> pg.secondaryText],
     status |-> "fetching", received |-> [kind |-> "none"],
     \* handleApplySample has run since this invocation started
     resetSince |-> FALSE]

\* variant: the submit button is never disabled
SubmitEnabledAlways(pg) == TRUE

\* disabled={loading} of the submit button
SubmitEnabled(pg) == ~pg.loading

\* handleSubmit once the response is ok: the data is stored
handleSubmitStored(pg, data) ==
    [pg EXCEPT !.result = data.result,
               !.primaryEntities = data.primaryEntities,
               !.secondaryEntities = data.secondaryEntities,
               !.loading = FALSE]

\* variant: the catch block leaves the entity lists as they were
handleSubmitCaughtKeepsEntities(pg, useLLM, message) ==
    [pg EXCEPT !.result =
                   [isRelevant |-> FALSE, score |-> Num(0, 1),
                    explanation |-> [level |-> "error", message |-> message],
                    components |-> [keywordOverlap |-> Num(0, 1),
                                    entityOverlap |-> Num(0, 1),
                                    semanticSimilarity |->
                                        IF useLLM THEN Num(0, 1) ELSE Undefined]],
               !.loading = FALSE]

\* handleSubmit's catch and finally, for an error with that message
handleSubmitCaught(pg, useLLM, message) ==
    [pg EXCEPT !.result =
                   [isRelevant |-> FALSE, score |-> Num(0, 1),
                    explanation |-> [level |-> "error", message |-> message],
                    components |-> [keywordOverlap |-> Num(0, 1),
                                    entityOverlap |-> Num(0, 1),
                                    semanticSimilarity |->
                                        IF useLLM THEN Num(0, 1) ELSE Undefined]],
               !.primaryEntities = << >>,
               !.secondaryEntities = << >>,
               !.loading = FALSE]

handleApplySample(pg, primary, secondary) ==
    [pg EXCEPT !.primaryText = primary, !.secondaryText = secondary,
               !.result = NullResult,
               !.primaryEntities = << >>, !.secondaryEntities = << >>]

\* result.explanation.match(/share keywords related to: ([^.]+)/): the
\* explanation has the sentence that lists keywords
KeywordsMatch(explanation) ==
    "keywords" \in DOMAIN explanation /\ explanation.keywords # << >>

\* the entities of p that no entity of s equals up to case
UniqueEntities(p, s) ==
    SelectSeq(p, LAMBDA e : ~\E i \in 1..Len(s) : ToLowerCase(s[i]) = ToLowerCase(e))

\* the body of the visualizer's effect, on the props of the render
useEffect(v, result, primaryEntities, secondaryEntities) ==
    [v EXCEPT !.sharedEntities = SharedEntities(primaryEntities, secondaryEntities),
              !.uniquePrimaryEntities = UniqueEntities(primaryEntities, secondaryEntities),
              !.uniqueSecondaryEntities = UniqueEntities(secondaryEntities, primaryEntities),
              !.sharedKeywords = IF KeywordsMatch(result.explanation)
                                 THEN result.explanation.keywords ELSE @]

\* the visualizer once Home has rendered pg with a new result and new entity
\* lists: unmounted without a result, mounted if it was not, and its effect
\* run
RelevanceVisualizer(v, pg) ==
    IF pg.result = NullResult THEN InitialVisualizer
    ELSE useEffect(IF v.mounted THEN v ELSE [InitialVisualizer EXCEPT !.mounted = TRUE],
                   pg.result, pg.primaryEntities, pg.secondaryEntities)

\* what the user types, the samples, what the provider answers to a call
\* started for the page, and what the network may send in place of the
\* endpoint: a JSON error of its own, or a body that is not JSON
PageTexts == {<< >>, <<"Sarah", "Johnson">>, <<"Sarah", "budget">>}
SAMPLE_DATA ==
    {[primary |-> <<"Sarah", "Johnson">>, secondary |-> <<"Sarah", "Johnson">>],
     [primary |-> <<"Sarah", "budget">>, secondary |-> <<"Sarah", "Johnson">>]}
Resolved(embedding) == [status |-> "resolved", embedding |-> embedding]
PageAnswers ==
    {<<[status |-> "rejected", embedding |-> << >>]>>,
     <<Resolved(<<1>>), Resolved(<<1>>)>>,
     <<Resolved(<<1, 0>>), Resolved(<<1, 1>>)>>}
NetworkErrors ==
    {[kind |-> "http", status |-> 504, message |-> "Gateway Timeout"],
     [kind |-> "http", status |-> 502, invalidJson |-> TRUE]}

InFlight(i) == i \in 1..Len(submits) /\ submits[i].status = "fetching"

\* onChange of the two textareas
EditPrimaryText(text) ==
    /\ text # page.primaryText
    /\ page' = [page EXCEPT !.primaryText = text]
    /\ UNCHANGED <<submits, visualizer, serverVars, engineVars>>

EditSecondaryText(text) ==
    /\ text # page.secondaryText
    /\ page' = [page EXCEPT !.secondaryText = text]
    /\ UNCHANGED <<submits, visualizer, serverVars, engineVars>>

\* onClick of the two algorithm buttons
ChooseAlgorithm(flag) ==
    /\ flag # page.useLLM
    /\ page' = [page EXCEPT !.useLLM = flag]
    /\ UNCHANGED <<submits, visualizer, serverVars, engineVars>>

\* a click on a sample
ApplySample(sample) ==
    /\ page' = handleApplySample(page, sample.primary, sample.secondary)
    /\ page' # page
    /\ submits' = [i \in 1..Len(submits) |->
                       IF submits[i].status = "fetching"
                       THEN [submits[i] EXCEPT !.resetSince = TRUE] ELSE submits[i]]
    /\ visualizer' = RelevanceVisualizer(visualizer, page')
    /\ UNCHANGED <<serverVars, engineVars>>

\* the form is submitted: the button is enabled and both required
\* textareas are filled; handleSubmit runs to its fetch
Submit ==
    /\ SubmitEnabled(page)
    /\ page.primaryText # << >>
    /\ page.secondaryText # << >>
    /\ page' = [page EXCEPT !.loading = TRUE]
    /\ submits' = Append(SelectSeq(submits, LAMBDA sb : sb.status = "fetching"),
                         handleSubmitStart(page))
    /\ UNCHANGED <<visualizer, serverVars, engineVars>>

\* what an invocation keeps of the response it got: its status, whether its
\* body was JSON, and the message in it ("" when it has none)
Received(res) ==
    [kind |-> "http", status |-> res.status,
     json |-> "invalidJson" \notin DOMAIN res,
     message |-> IF "message" \in DOMAIN res THEN res.message ELSE ""]

\* the fetch of invocation i resolves with res: the rest of handleSubmit
Respond(i, res) ==
    IF Ok(res)
    THEN /\ page' = handleSubmitStored(page, res)
         /\ submits' = [submits EXCEPT ![i].status = "stored",
                                       ![i].received = Received(res)]
    ELSE LET message == IF "invalidJson" \in DOMAIN res THEN "Unexpected token"
                        ELSE ErrorDataMessage(res)
         IN  /\ page' = handleSubmitCaught(page, submits[i].useLLM, message)
             /\ submits' = [submits EXCEPT ![i].status = "caught",
                                           ![i].received = Received(res)]

\* the endpoint answers invocation i
EndpointResponds(i, apiKey, answers) ==
    /\ InFlight(i)
    /\ Respond(i, EndpointResponse(submits[i].useLLM, submits[i].body, apiKey, answers))
    /\ visualizer' = RelevanceVisualizer(visualizer, page')
    /\ UNCHANGED <<serverVars, engineVars>>

\* the network answers invocation i in place of the endpoint
NetworkResponds(i, res) ==
    /\ InFlight(i)
    /\ Respond(i, res)
    /\ visualizer' = RelevanceVisualizer(visualizer, page')
    /\ UNCHANGED <<serverVars, engineVars>>

\* the fetch of invocation i rejects
FetchRejects(i) ==
    /\ InFlight(i)
    /\ page' = handleSubmitCaught(page, submits[i].useLLM, "Failed to fetch")
    /\ submits' = [submits EXCEPT ![i].status = "caught",
                                  ![i].received = [kind |-> "rejected",
                                                   message |-> "Failed to fetch"]]
    /\ visualizer' = RelevanceVisualizer(visualizer, page')
    /\ UNCHANGED <<serverVars, engineVars>>

EditsOfPrimaryText == \E text \in PageTexts : EditPrimaryText(text)
EditsOfSecondaryText == \E text \in PageTexts : EditSecondaryText(text)
AlgorithmChoices == \E flag \in BOOLEAN : ChooseAlgorithm(flag)
SampleClicks == \E sample \in SAMPLE_DATA : ApplySample(sample)
EndpointResponses ==
    \E i \in 1..Len(submits) :
        InFlight(i) /\ \E apiKey \in BOOLEAN, answers \in PageAnswers :
                           EndpointResponds(i, apiKey, answers)
NetworkResponses ==
    \E i \in 1..Len(submits), res \in NetworkErrors : NetworkResponds(i, res)
FetchRejections == \E i \in 1..Len(submits) : FetchRejects(i)

PageNext ==
    \/ EditsOfPrimaryText
    \/ EditsOfSecondaryText
    \/ AlgorithmChoices
    \/ SampleClicks
    \/ Submit
    \/ EndpointResponses
    \/ NetworkResponses
    \/ FetchRejections

PageSpec == Init /\ [][PageNext]_vars

(***************************************************************************)
(* The engine under concurrent use: two calculateRelevance calls of the    *)
(* LLM-enhanced pipeline, each suspended at its own embedding request,     *)
(* resumed in whatever order the provider answers. Each call has its own   *)
(* locals and its own OpenAI client; the module has no variable of its     *)
(* own.                                                                    *)
(***************************************************************************)
\* variant: keywordOverlap and entityOverlap are kept in variables of the
\* module, which every call writes when it begins: a resumed call reads
\* what the call begun last has left there
ResumeWithSharedOverlaps(cs, i, answer) ==
    LET last == cs[Len(cs)]
        c == [cs[i] EXCEPT !.keywordOverlap = last.keywordOverlap,
                           !.entityOverlap = last.entityOverlap]
    IN  [cs EXCEPT ![i] = IF answer.status = "rejected" THEN Rejected(c)
                          ELSE IF c.pc = "embedding1"
                          THEN FirstResolved(c, answer.embedding)
                          ELSE SecondResolved(c, answer.embedding)]

\* the calls once call i has been resumed with the provider's answer
Resume(cs, i, answer) ==
    [cs EXCEPT ![i] = IF answer.status = "rejected" THEN Rejected(cs[i])
                      ELSE IF cs[i].pc = "embedding1"
                      THEN FirstResolved(cs[i], answer.embedding)
                      ELSE SecondResolved(cs[i], answer.embedding)]

\* the texts of the concurrent calls, and the provider's answers to them
CallInputs ==
    {[primaryText |-> <<"Sarah", "Johnson">>, secondaryText |-> <<"Sarah", "Johnson">>],
     [primaryText |-> <<"budget">>, secondaryText |-> <<"Sarah", "budget">>],
     [primaryText |-> <<"Sarah">>, secondaryText |-> <<"budget">>]}
CallAnswers ==
    {[status |-> "rejected", embedding |-> << >>], Resolved(<<1>>), Resolved(<<1, 1>>)}

Suspended(i) ==
    /\ i \in 1..Len(calls)
    /\ calls[i].pc \in {"embedding1", "embedding2"}

\* calculateRelevance is called, and runs to its first await
CallBegins(input) ==
    /\ Len(calls) < 2
    /\ calls' = Append(calls, BeginCall(input.primaryText, input.secondaryText))
    /\ UNCHANGED <<provided, serverVars, pageVars>>

\* the provider answers the request call i awaits, and the call runs on to
\* its next await or to its return
ProviderAnswers(i, answer) ==
    /\ Suspended(i)
    /\ calls' = Resume(calls, i, answer)
    /\ provided' = Append(provided, [call |-> i, answer |-> answer])
    /\ UNCHANGED <<serverVars, pageVars>>

CallsBeginning == Len(calls) < 2 /\ \E input \in CallInputs : CallBegins(input)
ProviderAnswering ==
    \E i \in 1..Len(calls) : Suspended(i) /\ \E answer \in CallAnswers :
                                                 ProviderAnswers(i, answer)

EngineNext ==
    \/ CallsBeginning
    \/ ProviderAnswering

EngineSpec == Init /\ [][EngineNext]_vars

(***************************************************************************)
(* What the properties speak of.                                           *)
(***************************************************************************)
Zero == Num(0, 1)
One == Num(1, 1)
InUnitInterval(x) == GE(x, Zero) /\ GE(One, x)

LLMReturned == call.outcome.kind = "returned"
LLMResult == call.outcome.result
SimpleAnswered == request.endpoint = "simple" /\ response.status = 200
EntityTopicReturned == request.endpoint = "entityTopic" /\ response.kind = "return"

SomeRequest(status) == \E i \in 1..Len(call.requests) : call.requests[i].status = status

\* 0.6 * keywordOverlap + 0.4 * entityOverlap of a result's components
Blend(components) ==
    Plus(Times(components.keywordOverlap, 6, 10), Times(components.entityOverlap, 4, 10))

BothResolved ==
    /\ Len(call.requests) = 2
    /\ \A i \in 1..2 : call.requests[i].status = "resolved"

DimensionMismatch ==
    BothResolved /\ Len(call.requests[1].embedding) # Len(call.requests[2].embedding)

PostedTo(endpoint) == request.endpoint = endpoint /\ request.method = "POST"

TextMissing == Falsy(request.body, "primaryText") \/ Falsy(request.body, "secondaryText")

(***************************************************************************)
(* C1. LLM-enhanced pipeline: once an embedding request (for either text)  *)
(* has been rejected, calculateRelevance has returned a result, the        *)
(* endpoint has answered 200 with it, and the result's semanticSimilarity  *)
(* is 0.6 * keywordOverlap + 0.4 * entityOverlap of the same result.       *)
(***************************************************************************)
C1_RejectionGivesFallback ==
    SomeRequest("rejected") =>
        /\ LLMReturned
        /\ LLMResult.components.semanticSimilarity = Blend(LLMResult.components)
        /\ LLMResult.components.keywordOverlap = call.keywordOverlap
        /\ LLMResult.components.entityOverlap = call.entityOverlap
        /\ response.status = 200
        /\ response.result = LLMResult

\* the second request is the one rejected, and the fallback is not zero
C1_Witness ==
    /\ Len(call.requests) = 2
    /\ call.requests[2].status = "rejected"
    /\ LLMReturned
    /\ GT(LLMResult.components.semanticSimilarity, Zero)
    /\ call.keywordOverlap # call.entityOverlap

(***************************************************************************)
(* C2. The claim: when the two embeddings the provider returned differ in  *)
(* length, the dimension-mismatch error leaves calculateRelevance (the     *)
(* call does not return a result, the endpoint answers 500).               *)
(***************************************************************************)
C2_MismatchPropagates ==
    DimensionMismatch => ~LLMReturned /\ response.status # 200

(***************************************************************************)
(* C3. The claim: every result of the LLM-enhanced pipeline has a score    *)
(* between 0 and 1, whatever vectors the provider returned and on the      *)
(* fallback path.                                                          *)
(***************************************************************************)
C3_LLMScoreInUnitInterval ==
    LLMReturned => InUnitInterval(LLMResult.score)

(***************************************************************************)
(* C4. The claim: every result of the entity/topic pipeline has a score    *)
(* between 0 and 1, whatever lists the extractors produced.                *)
(***************************************************************************)
C4_EntityTopicScoreInUnitInterval ==
    EntityTopicReturned => InUnitInterval(response.result.score)

(***************************************************************************)
(* C5. Every result of the lexical pipeline has a score between 0 and 1,   *)
(* for all keyword lists and entity lists, the empty ones included.        *)
(***************************************************************************)
C5_SimpleScoreInUnitInterval ==
    SimpleAnswered => InUnitInterval(response.result.score)

\* the score reaches 1 with both lists non-empty on both sides
C5_Witness ==
    /\ SimpleAnswered
    /\ response.result.score = One
    /\ response.primaryEntities # << >>

(***************************************************************************)
(* C6. In every result of every pipeline, isRelevant is true exactly when  *)
(* the score is strictly above the pipeline's threshold: 0.3 for the       *)
(* lexical and the entity/topic pipeline, 0.35 for the LLM-enhanced one.   *)
(***************************************************************************)
C6_RelevantIffAboveThreshold ==
    /\ SimpleAnswered =>
           (response.result.isRelevant <=> GT(response.result.score, Num(3, 10)))
    /\ EntityTopicReturned =>
           (response.result.isRelevant <=> GT(response.result.score, Num(3, 10)))
    /\ LLMReturned => (LLMResult.isRelevant <=> GT(LLMResult.score, Num(35, 100)))

\* a score equal to the threshold, which is not relevant
C6_Witness ==
    /\ SimpleAnswered
    /\ response.result.score = Num(3, 10)
    /\ ~response.result.isRelevant

(***************************************************************************)
(* C7. A POST to either endpoint whose primaryText or secondaryText is     *)
(* empty or missing is answered 400, and nothing has been computed for it: *)
(* no extraction, no scoring, no embedding request.                        *)
(***************************************************************************)
C7_MissingTextIs400 ==
    ((PostedTo("llm") \/ PostedTo("simple")) /\ TextMissing) =>
        /\ response.status = 400
        /\ ops = {}
        /\ call.requests = << >>

\* the LLM endpoint, a credential set, an empty primaryText
C7_Witness ==
    /\ PostedTo("llm")
    /\ request.apiKey
    /\ "primaryText" \in DOMAIN request.body
    /\ request.body["primaryText"] = << >>
    /\ ~Falsy(request.body, "secondaryText")
    /\ response.status = 400

(***************************************************************************)
(* C8. A POST to the LLM endpoint with both texts present and no           *)
(* credential available is answered 500 "OpenAI API key is not             *)
(* configured", and nothing has been computed for it: no extraction, no    *)
(* overlap scoring, no embedding request.                                  *)
(***************************************************************************)
C8_NoCredentialIs500 ==
    (PostedTo("llm") /\ ~TextMissing /\ ~request.apiKey) =>
        /\ response.status = 500
        /\ response.error = "OpenAI API key is not configured"
        /\ ops = {}
        /\ call.requests = << >>
        /\ call.pc = "idle"

C8_Witness ==
    /\ PostedTo("llm")
    /\ ~TextMissing
    /\ ~request.apiKey
    /\ response.status = 500

(***************************************************************************)
(* C9. The claim: if the provider never answers an embedding request, the  *)
(* call still eventually returns, with the fallback blend as               *)
(* semanticSimilarity. Stated so that a finite run decides it: once a      *)
(* request is left unanswered, either the call has returned the fallback   *)
(* or some step is still possible (a timeout, a cancellation) that can     *)
(* take it there.                                                          *)
(***************************************************************************)
C9_UnansweredStillReturns ==
    SomeRequest("unanswered") =>
        \/ LLMReturned /\ LLMResult.components.semanticSimilarity = Blend(LLMResult.components)
        \/ ENABLED <<Next>>_vars

(***************************************************************************)
(* C10. Within one call of the LLM-enhanced pipeline at most two embedding *)
(* requests are issued, at most one per text; a rejected request is the    *)
(* last one issued (it is not retried and none follows it), and with it    *)
(* the call has returned the fallback.                                     *)
(***************************************************************************)
C10_OneRequestPerTextNoRetry ==
    /\ Len(call.requests) <= 2
    /\ \A i, j \in 1..Len(call.requests) :
           call.requests[i].text = call.requests[j].text => i = j
    /\ \A i \in 1..Len(call.requests) :
           call.requests[i].status = "rejected" =>
               /\ i = Len(call.requests)
               /\ LLMReturned
               /\ LLMResult.components.semanticSimilarity = Blend(LLMResult.components)

\* the first request is rejected: the second text's embedding is never asked for
C10_Witness ==
    /\ Len(call.requests) = 1
    /\ call.requests[1].text = "primary"
    /\ call.requests[1].status = "rejected"
    /\ LLMReturned

(***************************************************************************)
(* C11. The claim: in the result the lexical endpoint delivers, score is   *)
(* 0.6 * components.keywordOverlap + 0.4 * components.entityOverlap, for   *)
(* every pair of non-empty texts.                                          *)
(***************************************************************************)
C11_SimpleScoreIsBlendOfComponents ==
    SimpleAnswered => response.result.score = Blend(response.result.components)

(***************************************************************************)
(* C12. Every result of the LLM-enhanced pipeline, whether the similarity  *)
(* came from the provider's embeddings or from the fallback, has           *)
(* score = 0.3 * keywordOverlap + 0.2 * entityOverlap                      *)
(*         + 0.5 * semanticSimilarity over its own components, and the     *)
(* components are the overlaps the call computed.                          *)
(***************************************************************************)
C12_LLMScoreIsWeightedSum ==
    LLMReturned =>
        /\ LLMResult.score =
               Plus(Plus(Times(LLMResult.components.keywordOverlap, 3, 10),
                         Times(LLMResult.components.entityOverlap, 2, 10)),
                    Times(LLMResult.components.semanticSimilarity, 5, 10))
        /\ LLMResult.components.keywordOverlap = call.keywordOverlap
        /\ LLMResult.components.entityOverlap = call.entityOverlap

\* the provider path, with the three components all positive and the
\* similarity irrational (vectors at 45 degrees)
C12_Witness ==
    /\ LLMReturned
    /\ BothResolved
    /\ GT(LLMResult.components.keywordOverlap, Zero)
    /\ GT(LLMResult.components.entityOverlap, Zero)
    /\ LLMResult.components.semanticSimilarity.b # <<0, 1>>
    /\ GT(LLMResult.components.semanticSimilarity, Zero)

(***************************************************************************)
(* C13. calculateOverlap returns 0 whenever at least one of its two        *)
(* collections is empty, both empty included; so do the overlaps the       *)
(* LLM-enhanced pipeline computes from an empty keyword or entity list.    *)
(***************************************************************************)
OverlapReturned == request.endpoint = "calculateOverlap" /\ response.kind = "return"

C13_OverlapOfEmptyIsZero ==
    /\ (OverlapReturned /\ (request.array1 = << >> \/ request.array2 = << >>)) =>
           response.result = Zero
    /\ (Awaiting \/ LLMReturned) =>
           /\ (call.primaryEntities = << >> \/ call.secondaryEntities = << >>) =>
                  call.entityOverlap = Zero
           /\ (call.primaryKeywords = << >> \/ call.secondaryKeywords = << >>) =>
                  call.keywordOverlap = Zero

\* both collections empty
C13_Witness ==
    /\ OverlapReturned
    /\ request.array1 = << >>
    /\ request.array2 = << >>
    /\ response.result = Zero

(***************************************************************************)
(* C14. calculateOverlap(A, A') is 1 for every non-empty A and every A'    *)
(* with the same elements up to letter case, in any order and with any     *)
(* repetition (A' = A included).                                           *)
(***************************************************************************)
LowerSet(array) == {ToLowerCase(x) : x \in Range(array)}

C14_OverlapWithItselfIsOne ==
    (/\ OverlapReturned
     /\ request.array1 # << >>
     /\ LowerSet(request.array1) = LowerSet(request.array2)) =>
        response.result = One

\* A' is A in another order and another case
C14_Witness ==
    /\ OverlapReturned
    /\ request.array1 = << <<"Sarah">>, <<"budget">> >>
    /\ request.array2 = << <<"budget">>, <<"sarah">> >>
    /\ response.result = One

(***************************************************************************)
(* C15. calculateOverlap is symmetric: calculateOverlap(A, B) equals       *)
(* calculateOverlap(B, A) for all collections, empty or not.               *)
(***************************************************************************)
C15_OverlapIsSymmetric ==
    OverlapReturned =>
        response.result = calculateOverlap(request.array2, request.array1)

\* collections of different sizes that overlap in part
C15_Witness ==
    /\ OverlapReturned
    /\ Len(request.array1) = 1
    /\ Cardinality(LowerSet(request.array2)) = 2
    /\ response.result = Num(1, 2)

(***************************************************************************)
(* C16. A request to either endpoint with a method other than POST is      *)
(* answered 405 "Method not allowed" and nothing else has happened: the    *)
(* body has not been read, the credential has not been read, nothing has   *)
(* been computed and no embedding request has been issued.                 *)
(***************************************************************************)
C16_OtherMethodIs405 ==
    (request.endpoint \in {"llm", "simple"} /\ request.method # "POST") =>
        /\ response.status = 405
        /\ response.error = "Method not allowed"
        /\ reads = {}
        /\ ops = {}
        /\ call.pc = "idle"
        /\ call.requests = << >>

\* a GET to the LLM endpoint whose body would pass validation, with a
\* credential set: it would have been computed had it been a POST
C16_Witness ==
    /\ request.endpoint = "llm"
    /\ request.method = "GET"
    /\ ~TextMissing
    /\ request.apiKey
    /\ response.status = 405

(***************************************************************************)
(* C17. When the request of a handleSubmit fails (the fetch rejects, or    *)
(* the response is not 2xx), that handleSubmit completes, and as it does   *)
(* the page holds a result with isRelevant = false, score = 0 and an       *)
(* explanation carrying the message of the error (the rejection's, the     *)
(* response's own message, or 'Failed to calculate relevance' when the     *)
(* response has none), both entity lists are empty and loading is false.   *)
(***************************************************************************)
Failed(rc) == rc.kind = "rejected" \/ (rc.kind = "http" /\ (rc.status < 200 \/ rc.status > 299))

ErrorMessageOf(rc) ==
    IF rc.kind = "rejected" THEN rc.message
    ELSE IF ~rc.json THEN "Unexpected token"
    ELSE IF rc.message # "" THEN rc.message
    ELSE "Failed to calculate relevance"

C17_FailureBecomesErrorResult ==
    [][\A i \in 1..Len(submits) :
          (InFlight(i) /\ Len(submits') >= i /\ Failed(submits'[i].received)) =>
              /\ submits'[i].status = "caught"
              /\ page'.result.isRelevant = FALSE
              /\ page'.result.score = Zero
              /\ page'.result.explanation.message = ErrorMessageOf(submits'[i].received)
              /\ page'.primaryEntities = << >>
              /\ page'.secondaryEntities = << >>
              /\ ~page'.loading]_vars

\* the endpoint's own 500 (no credential), whose body has no message
C17_Witness ==
    /\ Len(submits) = 1
    /\ submits[1].status = "caught"
    /\ submits[1].received.kind = "http"
    /\ submits[1].received.status = 500
    /\ page.result # NullResult
    /\ page.result.explanation.message = "Failed to calculate relevance"
    /\ ~page.loading

(***************************************************************************)
(* C18. Concurrent calls of the LLM-enhanced calculateRelevance do not     *)
(* affect each other: whatever the order in which the provider answers     *)
(* them, a call that has returned has returned the result of the same      *)
(* call run on its own with the same texts and the same answers.           *)
(***************************************************************************)
\* the provider's answers to call i, in order
AnswersTo(i) ==
    LET mine == SelectSeq(provided, LAMBDA a : a.call = i)
    IN  [k \in 1..Len(mine) |-> mine[k].answer]

CallReturned(i) == i \in 1..Len(calls) /\ calls[i].pc = "returned"

C18_ConcurrentCallsAreIndependent ==
    \A i \in 1..Len(calls) :
        CallReturned(i) =>
            calls[i].outcome.result =
                RunAlone(calls[i].primaryText, calls[i].secondaryText,
                         AnswersTo(i)).outcome.result

\* two calls on different texts, answered in turn (1, 2, 1, 2), with
\* different results
C18_Witness ==
    /\ Len(calls) = 2
    /\ CallReturned(1)
    /\ CallReturned(2)
    /\ Len(provided) = 4
    /\ \A k \in 1..4 : provided[k].call = IF k % 2 = 1 THEN 1 ELSE 2
    /\ calls[1].primaryText # calls[2].primaryText
    /\ calls[1].outcome.result.score # calls[2].outcome.result.score

(***************************************************************************)
(* C19. The claim: extractKeywords returns at most 15 distinct lowercase   *)
(* tokens, ordered by descending frequency in the text, and among tokens   *)
(* of equal frequency the one first seen in the text comes first, for      *)
(* every text, tokens made only of digits included.                        *)
(***************************************************************************)
KeywordsReturned == request.endpoint = "extractKeywords" /\ response.kind = "return"

\* the tokens of a text that count: lowercased, without punctuation, not a
\* stop word, longer than two characters
Tokens(text) ==
    SelectSeq([i \in 1..Len(text) |-> StripPunctuation(LowerWord(text[i]))],
              LAMBDA w : w \notin StopWords /\ WordLength(w) > 2)

FirstSeen(tokens, w) == CHOOSE i \in 1..Len(tokens) :
                            tokens[i] = w /\ \A j \in 1..(i - 1) : tokens[j] # w

C19_KeywordsByFrequencyThenFirstSeen ==
    KeywordsReturned =>
        LET out == response.result
            tokens == Tokens(request.text)
        IN  /\ Len(out) <= MaxKeywords
            /\ NoRepeat(out)
            /\ \A i \in 1..Len(out) :
                   /\ Includes(tokens, out[i][1])
                   /\ LowerWord(out[i][1]) = out[i][1]
            /\ \A i, j \in 1..Len(out) :
                   i < j =>
                       \/ Occurrences(tokens, out[i][1]) > Occurrences(tokens, out[j][1])
                       \/ /\ Occurrences(tokens, out[i][1]) = Occurrences(tokens, out[j][1])
                          /\ FirstSeen(tokens, out[i][1]) < FirstSeen(tokens, out[j][1])

(***************************************************************************)
(* C20. The claim: in every pipeline each list of shared terms in the      *)
(* explanation is cut short: at most the first 5 shared entities (per      *)
(* category) and at most the first 7 shared keywords or topics, with "..." *)
(* after a list exactly when more were shared.                             *)
(***************************************************************************)
C20_SharedListsAreTruncated ==
    /\ SimpleAnswered =>
           LET e == response.result.explanation
           IN  /\ Len(e.entities) <= 5
               /\ Len(e.keywords) <= 7
               /\ e.entitiesMore <=>
                      Len(SharedEntities(response.primaryEntities,
                                         response.secondaryEntities)) > 5
    /\ LLMReturned =>
           LET e == LLMResult.explanation
           IN  /\ Len(e.entities) <= 5
               /\ Len(e.keywords) <= 7
               /\ e.entitiesMore <=>
                      Len(SharedEntities(call.primaryEntities, call.secondaryEntities)) > 5
               /\ e.keywordsMore <=>
                      Len(SharedExact(call.primaryKeywords, call.secondaryKeywords)) > 7
    /\ EntityTopicReturned =>
           LET e == response.result.explanation
           IN  /\ Len(e.people) <= 5
               /\ Len(e.organizations) <= 5
               /\ Len(e.places) <= 5
               /\ Len(e.topics) <= 7

(***************************************************************************)
(* C21. In every result of every pipeline the lead sentence of the         *)
(* explanation agrees with the threshold decision: it is High exactly when *)
(* score > 0.7, Moderate exactly when threshold < score <= 0.7, and Low    *)
(* exactly when isRelevant is false, the threshold being that of           *)
(* isRelevant (0.3 lexical and entity/topic, 0.35 LLM-enhanced).           *)
(***************************************************************************)
LeadAgrees(result, threshold) ==
    /\ result.explanation.level = "High" <=> GT(result.score, Num(7, 10))
    /\ result.explanation.level = "Moderate" <=>
           (GT(result.score, threshold) /\ ~GT(result.score, Num(7, 10)))
    /\ result.explanation.level = "Low" <=> ~result.isRelevant

C21_LeadSentenceAgreesWithDecision ==
    /\ SimpleAnswered => LeadAgrees(response.result, Num(3, 10))
    /\ EntityTopicReturned => LeadAgrees(response.result, Num(3, 10))
    /\ LLMReturned => LeadAgrees(LLMResult, Num(35, 100))

\* an LLM-enhanced score just above 0.35 (0.5 / sqrt(2)): Moderate, relevant
C21_Witness ==
    /\ LLMReturned
    /\ GT(LLMResult.score, Num(35, 100))
    /\ GT(Num(4, 10), LLMResult.score)
    /\ LLMResult.explanation.level = "Moderate"
    /\ LLMResult.isRelevant

(***************************************************************************)
(* C22. The claim: once handleApplySample has cleared the result and both  *)
(* entity lists, they stay null and empty until a submit started after     *)
(* that reset completes: the invocation that was in flight when the sample *)
(* was applied does not fill them again when its response arrives.         *)
(***************************************************************************)
Completed(i) == i \in 1..Len(submits) /\ submits[i].status \in {"stored", "caught"}

C22_ResetIsNotOverwritten ==
    \A i \in 1..Len(submits) :
        (Completed(i) /\ submits[i].resetSince) =>
            /\ page.result = NullResult
            /\ page.primaryEntities = << >>
            /\ page.secondaryEntities = << >>

(***************************************************************************)
(* C23. The claim: whenever a result an endpoint computed is displayed,    *)
(* the pipeline flag it is rendered with (useLLM: the AI-Enhanced badge,   *)
(* showSemanticSimilarity, the 0.35 or 0.3 colour threshold) is the        *)
(* pipeline of the endpoint that computed it, under every interleaving of  *)
(* algorithm choices, submits and responses.                               *)
(***************************************************************************)
C23_FlagIsPipelineOfResult ==
    \A i \in 1..Len(submits) :
        (submits[i].status = "stored" /\ page.result # NullResult) =>
            page.useLLM = submits[i].useLLM

(***************************************************************************)
(* C24. The claim: whenever RelevanceVisualizer shows a result, its        *)
(* sharedKeywords are the keywords the explanation of that result lists,   *)
(* and none when the explanation lists none, also after other results      *)
(* shown by the same mounted component.                                    *)
(***************************************************************************)
ListedKeywords(explanation) ==
    IF KeywordsMatch(explanation) THEN explanation.keywords ELSE << >>

C24_SharedKeywordsAreThoseListed ==
    visualizer.mounted =>
        visualizer.sharedKeywords = ListedKeywords(page.result.explanation)

(***************************************************************************)
(* C25. loading is true exactly while a handleSubmit is between its start  *)
(* and the settling of its request: it is false once the invocation has    *)
(* completed, whether the response was stored or an error was caught; and  *)
(* as the submit button is disabled while loading is true, at most one     *)
(* request of the page is in flight at any time.                           *)
(***************************************************************************)
InFlightCount == Cardinality({i \in 1..Len(submits) : InFlight(i)})

C25_LoadingWhileInFlight ==
    /\ page.loading <=> InFlightCount > 0
    /\ InFlightCount <= 1

\* an invocation has completed on an error, and the next one is in flight
C25_Witness ==
    /\ page.loading
    /\ InFlightCount = 1
    /\ page.result # NullResult
    /\ page.result.explanation.level = "error"

====
